---- MODULE Spec2Model ----
(***************************************************************************)
(* Logify: windowed analysis (LogAggregator, LogAnalyzer) and cross-source *)
(* combination (LogCombiner) over in-memory slices of LogEntry.            *)
(*                                                                         *)
(* Conventions                                                             *)
(*   - a DateTime<Utc> is an integer number of ticks, a chrono Duration a  *)
(*     signed integer number of ticks;                                     *)
(*   - Option<T> is a sequence: <<>> is None, <<x>> is Some(x);            *)
(*   - a &LogEntry into a slice is the 1-based index of the entry;         *)
(*   - an f64 computed from bucket counts is kept as an exact fraction;    *)
(*     the one IEEE special case the code can reach, 0.0 / 0.0 = NaN, is   *)
(*     modelled explicitly (every comparison with NaN is false).           *)
(***************************************************************************)
EXTENDS Integers, Sequences, FiniteSets, TLC

VARIABLES
    entries,          \* LogAggregator.entries / LogAnalyzer.entries
    caller,           \* the public method that was called ("none" before)
    window,           \* its window / window_size argument
    threshold,        \* detect_anomalies' threshold, a fraction <<num, den>>
    pc,               \* position inside the call
    idx,              \* position of the `for entry in self.entries` loop
    window_start,     \* generate_time_series local
    window_end,       \* generate_time_series local
    current_entries,  \* generate_time_series local
    series,           \* generate_time_series local / return value
    windows,          \* return value of group_by_window
    anomalies,        \* return value of detect_anomalies
    primary_entries,  \* LogCombiner.primary_entries
    secondary_entries,\* LogCombiner.secondary_entries
    tolerance,        \* combine_by_timestamp's tolerance argument
    key,              \* combine_by_metadata_key's key argument
    combined,         \* return value of combine_by_timestamp / _metadata_key
    merged,           \* return value of merge_chronologically
    result,           \* return value of the other methods, which run in one step
    min_occurrences,  \* detect_patterns' min_occurrences argument
    previous          \* Some(return value) of the call before, on the same input

\* What LogCombiner's methods read and write
combineVars == <<primary_entries, secondary_entries, tolerance, key, combined, merged>>

\* What the windowing methods of LogAggregator and LogAnalyzer read and write
windowVars == <<entries, window, threshold, idx, window_start, window_end,
                current_entries, series, windows, anomalies>>

\* What the one-step methods write
callVars == <<result, min_occurrences, previous>>

vars == <<caller, pc, windowVars, combineVars, callVars>>

----------------------------------------------------------------------------
(* Bounds of the model *)

MaxLen == 4
MaxTs == 3
MaxWindow == 2
TimeFloor == 2

MaxPrimary == 2
MaxSecondary == 3
MaxCombineTs == 2
MaxTolerance == 2

MaxStatsLen == 3

MaxMsgLen == 3

MaxOccurrences == 2

MaxAnalysisLen == 2

Timestamps == 0..MaxTs
Tolerances == (0 - 1)..MaxTolerance
\* Metadata keys the callers ask for
Keys == {"request_id", "user"}
Windows == (0 - 1)..MaxWindow
\* Thresholds the callers are drawn from: -1, 0, 1/2, 1, 2
Thresholds == {<<0 - 1, 1>>, <<0, 1>>, <<1, 2>>, <<1, 1>>, <<2, 1>>}

\* chrono's DateTime::<Utc>::MIN_UTC scaled to the model's ticks: the least
\* representable instant.  The inputs lie far above it.
MIN_UTC == 0 - TimeFloor

----------------------------------------------------------------------------
(* Record model: parser.rs *)

LogLevel == {"Error", "Warn", "Info", "Debug", "Trace"}

\* LogEntry::new
NewLogEntry(timestamp, level, message, action, source, metadata) ==
    [timestamp |-> timestamp, level |-> level, message |-> message,
     action |-> action, source |-> source, metadata |-> metadata]

\* Sequences over S of length 0..n
SeqUpTo(S, n) == UNION {[1..k -> S] : k \in 0..n}

Range(s) == {s[i] : i \in DOMAIN s}

RECURSIVE SumSeq(_)
SumSeq(s) == IF s = <<>> THEN 0 ELSE Head(s) + SumSeq(Tail(s))

\* Entries that differ in their timestamp only (create_test_entry of the
\* aggregate.rs tests: fixed message, no source, no metadata).
TimedEntry(t) == NewLogEntry(t, "Info", <<>>, <<"a">>, <<>>, <<>>)

----------------------------------------------------------------------------
(* LogAggregator::group_by_window, aggregate.rs *)

\* One iteration of `for entry in self.entries` (lines 102-112); st holds the
\* locals result, current_window, window_start, window_end.
GbwStep(st, es, i, window_size) ==
    IF es[i].timestamp > st.window_end
    THEN [result |-> IF st.current_window # <<>>
                     THEN Append(st.result, <<st.window_start, st.current_window>>)
                     ELSE st.result,
          current_window |-> <<i>>,
          window_start |-> st.window_end,
          window_end |-> st.window_end + window_size]
    ELSE [st EXCEPT !.current_window = Append(@, i)]

RECURSIVE GbwLoop(_, _, _, _)
GbwLoop(st, es, i, window_size) ==
    IF i > Len(es) THEN st
    ELSE GbwLoop(GbwStep(st, es, i, window_size), es, i + 1, window_size)

group_by_window(es, window_size) ==
    IF es = <<>> THEN <<>>
    ELSE LET st0 == [result |-> <<>>,
                     current_window |-> <<>>,
                     window_start |-> es[1].timestamp,
                     window_end |-> es[1].timestamp + window_size]
             st == GbwLoop(st0, es, 1, window_size)
         IN  IF st.current_window # <<>>
             THEN Append(st.result, <<st.window_start, st.current_window>>)
             ELSE st.result

----------------------------------------------------------------------------
(* LogAnalyzer::generate_time_series, analyze.rs *)

\* create_time_series_data: members is the list of entry references
create_time_series_data(timestamp, members) ==
    [timestamp |-> timestamp,
     count |-> Len(members),
     level_distribution |->
        [l \in {entries[i].level : i \in Range(members)} |->
            Cardinality({k \in DOMAIN members : entries[members[k]].level = l})]]

\* `DateTime + Duration` panics when the sum is not representable.
AddOverflows(t, d) == t + d < MIN_UTC

\* Lines 43-50: the empty-input return, else the locals' initial values.
\* The call returns to its caller: detect_anomalies goes on at "returned".
ReturnTo(c) == IF c = "detect_anomalies" THEN "returned" ELSE "done"

BeginTimeSeries(c, w) ==
    /\ window' = w
    /\ IF entries = <<>>
       THEN /\ series' = <<>>
            /\ pc' = ReturnTo(c)
            /\ UNCHANGED <<idx, window_start, window_end, current_entries>>
       ELSE /\ series' = <<>>
            /\ current_entries' = <<>>
            /\ window_start' = entries[1].timestamp
            /\ window_end' = entries[1].timestamp + w
            /\ idx' = 1
            /\ pc' = IF AddOverflows(entries[1].timestamp, w) THEN "panic" ELSE "loop"

\* pub fn generate_time_series(&self, window: Duration), called directly
GenerateTimeSeries ==
    /\ pc = "idle"
    /\ \E w \in Windows :
          /\ caller' = "generate_time_series"
          /\ BeginTimeSeries("generate_time_series", w)
    /\ UNCHANGED <<entries, threshold, windows, anomalies>>
    /\ UNCHANGED combineVars
    /\ UNCHANGED callVars

\* TsAdvance with line 61 as `window_end = window_start`: the window end
\* stays where it is
TsAdvance_NoGrowth ==
    /\ pc = "loop"
    /\ idx <= Len(entries)
    /\ entries[idx].timestamp > window_end
    /\ series' = IF current_entries # <<>>
                 THEN Append(series, create_time_series_data(window_start, current_entries))
                 ELSE series
    /\ window_start' = window_end
    /\ window_end' = window_end
    /\ pc' = pc
    /\ current_entries' = <<>>
    /\ UNCHANGED <<entries, caller, window, threshold, idx, windows, anomalies>>
    /\ UNCHANGED combineVars
    /\ UNCHANGED callVars

\* TsAdvance without line 62, current_entries.clear()
TsAdvance_NoClear ==
    /\ pc = "loop"
    /\ idx <= Len(entries)
    /\ entries[idx].timestamp > window_end
    /\ series' = IF current_entries # <<>>
                 THEN Append(series, create_time_series_data(window_start, current_entries))
                 ELSE series
    /\ window_start' = window_end
    /\ IF AddOverflows(window_end, window)
       THEN pc' = "panic" /\ UNCHANGED window_end
       ELSE pc' = pc /\ window_end' = window_end + window
    /\ UNCHANGED <<entries, caller, window, threshold, idx, current_entries,
                   windows, anomalies>>
    /\ UNCHANGED combineVars
    /\ UNCHANGED callVars

\* TsAdvance with `while entry.timestamp() >= &window_end`
TsAdvance_Ge ==
    /\ pc = "loop"
    /\ idx <= Len(entries)
    /\ entries[idx].timestamp >= window_end
    /\ series' = IF current_entries # <<>>
                 THEN Append(series, create_time_series_data(window_start, current_entries))
                 ELSE series
    /\ window_start' = window_end
    /\ IF AddOverflows(window_end, window)
       THEN pc' = "panic" /\ UNCHANGED window_end
       ELSE pc' = pc /\ window_end' = window_end + window
    /\ current_entries' = <<>>
    /\ UNCHANGED <<entries, caller, window, threshold, idx, windows, anomalies>>
    /\ UNCHANGED combineVars
    /\ UNCHANGED callVars

\* One pass of `while entry.timestamp() > &window_end` (lines 53-63)
TsAdvance ==
    /\ pc = "loop"
    /\ idx <= Len(entries)
    /\ entries[idx].timestamp > window_end
    /\ series' = IF current_entries # <<>>
                 THEN Append(series, create_time_series_data(window_start, current_entries))
                 ELSE series
    /\ window_start' = window_end
    /\ IF AddOverflows(window_end, window)
       THEN pc' = "panic" /\ UNCHANGED window_end
       ELSE pc' = pc /\ window_end' = window_end + window
    /\ current_entries' = <<>>
    /\ UNCHANGED <<entries, caller, window, threshold, idx, windows, anomalies>>
    /\ UNCHANGED combineVars
    /\ UNCHANGED callVars

\* The while condition is false: current_entries.push(entry) (line 64)
TsPush ==
    /\ pc = "loop"
    /\ idx <= Len(entries)
    /\ ~(entries[idx].timestamp > window_end)
    /\ current_entries' = Append(current_entries, idx)
    /\ idx' = idx + 1
    /\ UNCHANGED <<entries, caller, window, threshold, pc, window_start,
                   window_end, series, windows, anomalies>>
    /\ UNCHANGED combineVars
    /\ UNCHANGED callVars

\* The for loop is over: the last window and the return (lines 67-72)
TsReturn ==
    /\ pc = "loop"
    /\ idx > Len(entries)
    /\ series' = IF current_entries # <<>>
                 THEN Append(series, create_time_series_data(window_start, current_entries))
                 ELSE series
    /\ pc' = ReturnTo(caller)
    /\ UNCHANGED <<entries, caller, window, threshold, idx, window_start,
                   window_end, current_entries, windows, anomalies>>
    /\ UNCHANGED combineVars
    /\ UNCHANGED callVars

\* pub fn group_by_window(&self, window_size: Duration): a for loop over
\* the slice with no inner loop, one step.
GroupByWindow ==
    /\ pc = "idle"
    /\ \E w \in Windows :
          /\ caller' = "group_by_window"
          /\ window' = w
          /\ windows' = group_by_window(entries, w)
    /\ pc' = "done"
    /\ UNCHANGED <<entries, threshold, idx, window_start, window_end,
                   current_entries, series, anomalies>>
    /\ UNCHANGED combineVars
    /\ UNCHANGED callVars

----------------------------------------------------------------------------
(* LogAnalyzer::detect_anomalies, analyze.rs *)

\* Mean by integer division, as on usize counts
Mean_Truncated(counts) == <<SumSeq(counts) \div Len(counts), 1>>

\* counts.iter().sum::<f64>() / counts.len() as f64, as a fraction <<n, d>>
Mean(counts) == <<SumSeq(counts), Len(counts)>>

\* sum of (x - mean)^2, divided by counts.len(): a fraction <<n, d>>
Variance(counts, mean) ==
    <<SumSeq([k \in DOMAIN counts |->
                (counts[k] * mean[2] - mean[1]) * (counts[k] * mean[2] - mean[1])]),
      mean[2] * mean[2] * Len(counts)>>

\* ZScoreExceeds with `z_score >= threshold`
ZScoreExceeds_Ge(x, mean, variance, thr) ==
    LET devNum == (x * mean[2] - mean[1]) * (x * mean[2] - mean[1])
        devDen == mean[2] * mean[2]
    IN  IF variance[1] = 0
        THEN devNum # 0
        ELSE IF thr[1] < 0
        THEN TRUE
        ELSE devNum * variance[2] * thr[2] * thr[2]
                >= thr[1] * thr[1] * variance[1] * devDen

\* ZScoreExceeds with a zero std_dev guarded as `z_score = 0.0`
ZScoreExceeds_ZeroGuard(x, mean, variance, thr) ==
    LET devNum == (x * mean[2] - mean[1]) * (x * mean[2] - mean[1])
        devDen == mean[2] * mean[2]
    IN  IF variance[1] = 0
        THEN 0 > thr[1]
        ELSE IF thr[1] < 0
        THEN TRUE
        ELSE devNum * variance[2] * thr[2] * thr[2]
                > thr[1] * thr[1] * variance[1] * devDen

\* The filter closure (lines 153-156):
\*   z_score = (count - mean).abs() / variance.sqrt();  z_score > threshold
\* decided on the squares.  A zero std_dev makes the quotient NaN (0.0/0.0,
\* never greater than anything) or +inf (x/0.0, greater than every finite
\* threshold).
ZScoreExceeds(x, mean, variance, thr) ==
    LET devNum == (x * mean[2] - mean[1]) * (x * mean[2] - mean[1])
        devDen == mean[2] * mean[2]
    IN  IF variance[1] = 0
        THEN devNum # 0
        ELSE IF thr[1] < 0
        THEN TRUE
        ELSE devNum * variance[2] * thr[2] * thr[2]
                > thr[1] * thr[1] * variance[1] * devDen

RECURSIVE FilterMapAnomalies(_, _, _, _)
FilterMapAnomalies(ts, mean, variance, thr) ==
    IF ts = <<>> THEN <<>>
    ELSE LET rest == FilterMapAnomalies(Tail(ts), mean, variance, thr)
         IN  IF ZScoreExceeds(Head(ts).count, mean, variance, thr)
             THEN <<Head(ts).timestamp>> \o rest
             ELSE rest

\* AnomaliesOf whose early return hands back every bucket start
AnomaliesOf_EarlyAll(time_series, thr) ==
    IF Len(time_series) < 2 THEN [k \in DOMAIN time_series |-> time_series[k].timestamp]
    ELSE LET counts == [k \in DOMAIN time_series |-> time_series[k].count]
             mean == Mean(counts)
             variance == Variance(counts, mean)
         IN  FilterMapAnomalies(time_series, mean, variance, thr)

\* Lines 138-158, on the time series the call of line 137 returned
AnomaliesOf(time_series, thr) ==
    IF Len(time_series) < 2 THEN <<>>
    ELSE LET counts == [k \in DOMAIN time_series |-> time_series[k].count]
             mean == Mean(counts)
             variance == Variance(counts, mean)
         IN  FilterMapAnomalies(time_series, mean, variance, thr)

\* pub fn detect_anomalies(&self, window, threshold): the call of
\* generate_time_series (line 137) runs as the steps above
DetectAnomalies ==
    /\ pc = "idle"
    /\ \E w \in Windows, thr \in Thresholds :
          /\ caller' = "detect_anomalies"
          /\ threshold' = thr
          /\ BeginTimeSeries("detect_anomalies", w)
    /\ UNCHANGED <<entries, windows, anomalies>>
    /\ UNCHANGED combineVars
    /\ UNCHANGED callVars

AnomalyScan ==
    /\ pc = "returned"
    /\ anomalies' = AnomaliesOf(series, threshold)
    /\ pc' = "done"
    /\ UNCHANGED <<entries, caller, window, threshold, idx, window_start,
                   window_end, current_entries, series, windows>>
    /\ UNCHANGED combineVars
    /\ UNCHANGED callVars

----------------------------------------------------------------------------
(* Windowing and anomaly detection over every short slice of entries *)

InitWindow ==
    /\ entries \in {[i \in DOMAIN ts |-> TimedEntry(ts[i])] :
                        ts \in SeqUpTo(Timestamps, MaxLen)}
    /\ caller = "none"
    /\ window = 0
    /\ threshold = <<0, 1>>
    /\ pc = "idle"
    /\ idx = 0
    /\ window_start = 0
    /\ window_end = 0
    /\ current_entries = <<>>
    /\ series = <<>>
    /\ windows = <<>>
    /\ anomalies = <<>>
    /\ primary_entries = <<>>
    /\ secondary_entries = <<>>
    /\ tolerance = 0
    /\ key = ""
    /\ combined = <<>>
    /\ merged = <<>>
    /\ result = <<>>
    /\ min_occurrences = 0
    /\ previous = <<>>

NextWindow ==
    \/ GroupByWindow
    \/ GenerateTimeSeries
    \/ DetectAnomalies
    \/ TsAdvance
    \/ TsPush
    \/ TsReturn
    \/ AnomalyScan

SpecWindow == InitWindow /\ [][NextWindow]_vars

----------------------------------------------------------------------------
(* Properties of windowing *)

IsAscending(es) == \A i, j \in DOMAIN es : i < j => es[i].timestamp <= es[j].timestamp

Done(c) == pc = "done" /\ caller = c

\* The time series is complete: generate_time_series has returned
SeriesReturned ==
    /\ caller \in {"generate_time_series", "detect_anomalies"}
    /\ pc \in {"returned", "done"}

\* C1: for every record sequence, sorted or not, and every window width
\* w > 0, the buckets of group_by_window and of generate_time_series
\* partition the input: no bucket is empty, the bucket starts are strictly
\* increasing, and every record is in exactly one bucket (the bucket sizes
\* sum to the input length).
C1_BucketsPartitionInput ==
    /\ (Done("group_by_window") /\ window > 0) =>
         /\ \A k \in DOMAIN windows : windows[k][2] # <<>>
         /\ \A k \in DOMAIN windows :
               k < Len(windows) => windows[k][1] < windows[k + 1][1]
         /\ \A i \in DOMAIN entries :
               Cardinality({kj \in {<<k, j>> : k \in DOMAIN windows, j \in 1..Len(entries)} :
                              /\ kj[2] \in DOMAIN windows[kj[1]][2]
                              /\ windows[kj[1]][2][kj[2]] = i}) = 1
         /\ SumSeq([k \in DOMAIN windows |-> Len(windows[k][2])]) = Len(entries)
    /\ (SeriesReturned /\ window > 0) =>
         /\ \A k \in DOMAIN series : series[k].count >= 1
         /\ \A k \in DOMAIN series :
               k < Len(series) => series[k].timestamp < series[k + 1].timestamp
         /\ SumSeq([k \in DOMAIN series |-> series[k].count]) = Len(entries)

\* An unsorted input cut into several buckets, one of them holding two records
C1_Witness ==
    /\ Done("generate_time_series")
    /\ window > 0
    /\ ~IsAscending(entries)
    /\ Len(series) >= 2
    /\ \E k \in DOMAIN series : series[k].count >= 2

\* C2: group_by_window on an ascending input with w > 0 puts every record
\* in the bucket that contains it: a record at t in the bucket that starts
\* at s has s <= t <= s + w, however large the gap before it.
C2_RecordInsideItsBucket ==
    (Done("group_by_window") /\ window > 0 /\ IsAscending(entries)) =>
        \A k \in DOMAIN windows : \A j \in DOMAIN windows[k][2] :
            LET t == entries[windows[k][2][j]].timestamp
            IN  windows[k][1] <= t /\ t <= windows[k][1] + window

\* C3: called with a window width w <= 0 on some records, generate_time_series
\* (and detect_anomalies through it) never enters the bucketing loop: the
\* call ends with a configuration error and no bucket.
C3_NonPositiveWindowRejected ==
    (/\ caller \in {"generate_time_series", "detect_anomalies"}
     /\ window <= 0
     /\ entries # <<>>) =>
        /\ pc = "config_error"
        /\ series = <<>>
        /\ anomalies = <<>>

\* C6: on a series of two or more buckets that all have the same count
\* (standard deviation 0, every z-score 0/0) detect_anomalies returns
\* normally with no anomaly, for every threshold, zero and negative included.
ConstantCounts(ts) == \A k, l \in DOMAIN ts : ts[k].count = ts[l].count

C6_ConstantSeriesHasNoAnomaly ==
    (Done("detect_anomalies") /\ Len(series) >= 2 /\ ConstantCounts(series)) =>
        anomalies = <<>>

C6_Witness ==
    /\ Done("detect_anomalies")
    /\ Len(series) >= 3
    /\ ConstantCounts(series)
    /\ series[1].count >= 1
    /\ threshold[1] < 0
    /\ anomalies = <<>>

\* C7: on N >= 2 buckets with non-zero population standard deviation sigma,
\* detect_anomalies returns exactly the starts of the buckets whose
\* |count - mean| / sigma is strictly greater than the threshold, in bucket
\* order; a bucket whose z-score equals the threshold is not flagged.
\* With S the sum of the counts and Q the sum of their squares,
\* sigma^2 = (N*Q - S*S) / N^2 and z^2 = (N*x - S)^2 / (N*Q - S*S).
SumOfCounts(ts) == SumSeq([k \in DOMAIN ts |-> ts[k].count])
SumOfSquares(ts) == SumSeq([k \in DOMAIN ts |-> ts[k].count * ts[k].count])
SigmaSquaredNum(ts) == Len(ts) * SumOfSquares(ts) - SumOfCounts(ts) * SumOfCounts(ts)

\* z(x) compared with the fraction thr: -1 below, 0 equal, 1 above
ZCompare(ts, x, thr) ==
    LET d == Len(ts) * x - SumOfCounts(ts)
        lhs == d * d * thr[2] * thr[2]
        rhs == thr[1] * thr[1] * SigmaSquaredNum(ts)
    IN  IF thr[1] < 0 THEN 1
        ELSE IF lhs > rhs THEN 1 ELSE IF lhs = rhs THEN 0 ELSE 0 - 1

C8_NegativeThresholdFlagsNothing ==
    (caller = "detect_anomalies" /\ threshold[1] < 0) => anomalies = <<>>

\* C12: buckets are half-open intervals [start, start + w): on an ascending
\* input with w > 0 a record at exactly start + w is not in that bucket, so
\* every member t of a bucket that starts at s has t < s + w, in
\* group_by_window and in the bucket generate_time_series is filling.
C12_BucketsHalfOpen ==
    /\ (Done("group_by_window") /\ window > 0 /\ IsAscending(entries)) =>
          \A k \in DOMAIN windows : \A j \in DOMAIN windows[k][2] :
              entries[windows[k][2][j]].timestamp < windows[k][1] + window
    /\ (/\ caller \in {"generate_time_series", "detect_anomalies"}
        /\ pc = "loop"
        /\ window > 0
        /\ IsAscending(entries)) =>
          \A m \in Range(current_entries) :
              entries[m].timestamp < window_start + window

\* The least k >= 0 with t <= t0 + (k + 1) * w, t0 the first timestamp
BucketIndex(t) ==
    LET t0 == entries[1].timestamp
    IN  CHOOSE k \in 0..(t - t0) :
            /\ t <= t0 + (k + 1) * window
            /\ \A j \in 0..(k - 1) : t > t0 + (j + 1) * window

\* C13: on an ascending input with w > 0 generate_time_series counts a
\* record at t in the bucket that starts at t0 + k*w for the least k >= 0
\* with t <= t0 + (k+1)*w; the records of one k share one point, whose
\* timestamp is t0 + k*w and whose count is their number.
C13_RecordsInFirstAlignedBucket ==
    (SeriesReturned /\ window > 0 /\ IsAscending(entries) /\ entries # <<>>) =>
        LET used == {BucketIndex(entries[i].timestamp) : i \in DOMAIN entries}
        IN  /\ Len(series) = Cardinality(used)
            /\ \A p \in DOMAIN series :
                  \E k \in used :
                     /\ Cardinality({l \in used : l <= k}) = p
                     /\ series[p].timestamp = entries[1].timestamp + k * window
                     /\ series[p].count =
                           Cardinality({i \in DOMAIN entries :
                                           BucketIndex(entries[i].timestamp) = k})

\* A record exactly at the end of the first bucket is counted in it, and a
\* later record lies two buckets further
C13_Witness ==
    /\ Done("generate_time_series")
    /\ window > 0
    /\ IsAscending(entries)
    /\ Len(series) = 2
    /\ series[1].count >= 2
    /\ \E i \in DOMAIN entries : entries[i].timestamp = entries[1].timestamp + window
    /\ series[2].timestamp = entries[1].timestamp + 2 * window

\* C15: detect_anomalies returns no anomaly whenever windowing yields fewer
\* than 2 buckets (empty input, or all records in one bucket), for every
\* threshold.
C15_FewerThanTwoBucketsNoAnomaly ==
    (Done("detect_anomalies") /\ Len(series) < 2) => anomalies = <<>>

\* All records in one bucket, negative threshold
C15_Witness ==
    /\ Done("detect_anomalies")
    /\ Len(series) = 1
    /\ series[1].count >= 2
    /\ threshold[1] < 0
    /\ anomalies = <<>>

----------------------------------------------------------------------------
(* serde_json::Value as far as the metadata of the entries uses it: strings *)
(* and numbers, and objects of them.  A text is its sequence of characters. *)

JString(t) == [kind |-> "String", text |-> t, fields |-> {}]
JNumber(t) == [kind |-> "Number", text |-> t, fields |-> {}]
\* f is the set of <<key, value>> members
JObject(f) == [kind |-> "Object", text |-> <<>>, fields |-> f]

\* Value::get(key): None on anything but an object that has the key
ValueGet(v, k) ==
    IF v.kind = "Object" /\ \E p \in v.fields : p[1] = k
    THEN <<(CHOOSE p \in v.fields : p[1] = k)[2]>>
    ELSE <<>>

JNull == [kind |-> "Null", text |-> <<"n", "u", "l", "l">>, fields |-> {}]

\* to_string that gives a string without its quotes, as Value::as_str does
ValueToString_Unquoted(v) == v.text

\* Value::to_string(): the JSON text, a string in its double quotes
ValueToString(v) ==
    IF v.kind = "String" THEN <<"\"">> \o v.text \o <<"\"">> ELSE v.text

\* entry.metadata().as_ref().and_then(|m| m.get(key))
MetadataGet(entry, k) ==
    IF entry.metadata = <<>> THEN <<>> ELSE ValueGet(entry.metadata[1], k)

----------------------------------------------------------------------------
(* std::collections::HashMap: a function; insert replaces the value of a *)
(* key that is present; the iteration order is not specified.            *)

\* MapInsert that keeps the value of a key that is present
MapInsert_KeepFirst(m, k, v) ==
    [x \in DOMAIN m \cup {k} |-> IF x \in DOMAIN m THEN m[x] ELSE v]

MapInsert(m, k, v) == [x \in DOMAIN m \cup {k} |-> IF x = k THEN v ELSE m[x]]

\* Iterator<(K, V)>::collect::<HashMap<K, V>>(): the pairs inserted in order
RECURSIVE CollectFrom(_, _)
CollectFrom(m, pairs) ==
    IF pairs = <<>> THEN m
    ELSE CollectFrom(MapInsert(m, Head(pairs)[1], Head(pairs)[2]), Tail(pairs))

Collect(pairs) == CollectFrom(<<>>, pairs)

\* The orders in which iter() may visit the keys of m
IterationOrders(m) ==
    {o \in [1..Cardinality(DOMAIN m) -> DOMAIN m] :
        \A a, b \in DOMAIN o : a # b => o[a] # o[b]}

----------------------------------------------------------------------------
(* LogCombiner, combine.rs *)

\* WithinTolerance with `diff < tolerance`
WithinTolerance_Strict(time, primary_time, tol) ==
    LET diff == IF time > primary_time
                THEN time - primary_time
                ELSE primary_time - time
    IN  diff < tol

\* The closure of find (lines 37-44)
WithinTolerance(time, primary_time, tol) ==
    LET diff == IF time > primary_time
                THEN time - primary_time
                ELSE primary_time - time
    IN  diff <= tol

\* secondary_map of combine_by_timestamp (lines 28-32)
TimestampMap_CollectReversed(sec) ==
    Collect([j \in DOMAIN sec |-> <<sec[Len(sec) + 1 - j].timestamp, Len(sec) + 1 - j>>])

TimestampMap(sec) == Collect([j \in DOMAIN sec |-> <<sec[j].timestamp, j>>])

\* find that gives up after the first key in iteration order
FindWithinTolerance_FirstOnly(order, primary_time, tol) ==
    IF order = <<>> THEN <<>>
    ELSE IF WithinTolerance(Head(order), primary_time, tol)
    THEN <<Head(order)>>
    ELSE <<>>

\* secondary_map.iter().find(..): the first key in iteration order that the
\* closure accepts
RECURSIVE FindWithinTolerance(_, _, _)
FindWithinTolerance(order, primary_time, tol) ==
    IF order = <<>> THEN <<>>
    ELSE IF WithinTolerance(Head(order), primary_time, tol)
    THEN <<Head(order)>>
    ELSE FindWithinTolerance(Tail(order), primary_time, tol)

\* order is the iteration order of secondary_map during the call
combine_by_timestamp(prim, sec, tol, order) ==
    LET secondary_map == TimestampMap(sec)
    IN  [i \in DOMAIN prim |->
            LET found == FindWithinTolerance(order, prim[i].timestamp, tol)
            IN  [primary |-> i,
                 secondary |-> IF found = <<>> THEN <<>>
                               ELSE <<secondary_map[found[1]]>>]]

\* The filter_map of lines 62-67: (v.to_string(), entry) of the secondary
\* entries that have the key, in slice order
RECURSIVE KeyedPairs(_, _, _)
KeyedPairs(sec, k, j) ==
    IF j > Len(sec) THEN <<>>
    ELSE LET v == MetadataGet(sec[j], k)
         IN  (IF v = <<>> THEN <<>> ELSE << <<ValueToString(v[1]), j>> >>)
                \o KeyedPairs(sec, k, j + 1)

MetadataMap(sec, k) == Collect(KeyedPairs(sec, k, 1))

combine_by_metadata_key(prim, sec, k) ==
    LET secondary_map == MetadataMap(sec, k)
    IN  [i \in DOMAIN prim |->
            LET v == MetadataGet(prim[i], k)
            IN  [primary |-> i,
                 secondary |->
                    IF v = <<>> THEN <<>>
                    ELSE IF ValueToString(v[1]) \in DOMAIN secondary_map
                    THEN <<secondary_map[ValueToString(v[1])]>>
                    ELSE <<>>]]

\* A &LogEntry of merge_chronologically points into one of the two slices
Deref(prim, sec, ref) == IF ref[1] = "primary" THEN prim[ref[2]] ELSE sec[ref[2]]

\* InsertByKey in front of the elements of equal key
InsertByKey_BeforeEqual(sorted, ref, prim, sec) ==
    LET k == Deref(prim, sec, ref).timestamp
        n == Cardinality({a \in DOMAIN sorted :
                            Deref(prim, sec, sorted[a]).timestamp < k})
    IN  SubSeq(sorted, 1, n) \o <<ref>> \o SubSeq(sorted, n + 1, Len(sorted))

\* slice::sort_by_key is a stable sort: insertion of each element behind the
\* elements whose key is less than or equal to its own gives its result.
\* sorted is sorted by key.
InsertByKey(sorted, ref, prim, sec) ==
    LET k == Deref(prim, sec, ref).timestamp
        n == Cardinality({a \in DOMAIN sorted :
                            Deref(prim, sec, sorted[a]).timestamp <= k})
    IN  SubSeq(sorted, 1, n) \o <<ref>> \o SubSeq(sorted, n + 1, Len(sorted))

RECURSIVE SortByKeyFrom(_, _, _, _)
SortByKeyFrom(sorted, rest, prim, sec) ==
    IF rest = <<>> THEN sorted
    ELSE SortByKeyFrom(InsertByKey(sorted, Head(rest), prim, sec), Tail(rest), prim, sec)

merge_chronologically(prim, sec) ==
    LET all_entries == [i \in DOMAIN prim |-> <<"primary", i>>]
                          \o [j \in DOMAIN sec |-> <<"secondary", j>>]
    IN  SortByKeyFrom(<<>>, all_entries, prim, sec)

\* pub fn combine_by_timestamp(&self, tolerance: Duration)
CombineByTimestamp ==
    /\ pc = "idle"
    /\ \E tol \in Tolerances :
       \E order \in IterationOrders(TimestampMap(secondary_entries)) :
          /\ tolerance' = tol
          /\ combined' = combine_by_timestamp(primary_entries, secondary_entries, tol, order)
    /\ caller' = "combine_by_timestamp"
    /\ pc' = "done"
    /\ UNCHANGED <<primary_entries, secondary_entries, key, merged>>
    /\ UNCHANGED windowVars
    /\ UNCHANGED callVars

\* pub fn combine_by_metadata_key(&self, key: &str)
CombineByMetadataKey ==
    /\ pc = "idle"
    /\ \E k \in Keys :
          /\ key' = k
          /\ combined' = combine_by_metadata_key(primary_entries, secondary_entries, k)
    /\ caller' = "combine_by_metadata_key"
    /\ pc' = "done"
    /\ UNCHANGED <<primary_entries, secondary_entries, tolerance, merged>>
    /\ UNCHANGED windowVars
    /\ UNCHANGED callVars

\* pub fn merge_chronologically(&self)
MergeChronologically ==
    /\ pc = "idle"
    /\ merged' = merge_chronologically(primary_entries, secondary_entries)
    /\ caller' = "merge_chronologically"
    /\ pc' = "done"
    /\ UNCHANGED <<primary_entries, secondary_entries, tolerance, key, combined>>
    /\ UNCHANGED windowVars
    /\ UNCHANGED callVars

\* Nothing of the analyzer is in use while the combiner is
WindowUnused ==
    /\ entries = <<>>
    /\ window = 0
    /\ threshold = <<0, 1>>
    /\ idx = 0
    /\ window_start = 0
    /\ window_end = 0
    /\ current_entries = <<>>
    /\ series = <<>>
    /\ windows = <<>>
    /\ anomalies = <<>>

TimedEntries(maxLen) ==
    {[i \in DOMAIN ts |-> TimedEntry(ts[i])] : ts \in SeqUpTo(0..MaxCombineTs, maxLen)}

\* The timestamp pairing and the merge over every two short slices of entries
InitCombine ==
    /\ primary_entries \in TimedEntries(MaxPrimary)
    /\ secondary_entries \in TimedEntries(MaxSecondary)
    /\ tolerance = 0
    /\ key = ""
    /\ combined = <<>>
    /\ merged = <<>>
    /\ caller = "none"
    /\ pc = "idle"
    /\ WindowUnused
    /\ result = <<>>
    /\ min_occurrences = 0
    /\ previous = <<>>

NextCombine ==
    \/ CombineByTimestamp
    \/ MergeChronologically

SpecCombine == InitCombine /\ [][NextCombine]_vars

\* Metadata the entries are drawn from: none, a value that is no object,
\* {"request_id": "1"}, {"request_id": 1}, {"request_id": "1", "user": 1}
MetadataChoices ==
    {<<>>,
     <<JString(<<"1">>)>>,
     <<JObject({<<"request_id", JString(<<"1">>)>>})>>,
     <<JObject({<<"request_id", JNumber(<<"1">>)>>})>>,
     <<JObject({<<"request_id", JString(<<"1">>)>>, <<"user", JNumber(<<"1">>)>>})>>}

\* Entries that differ in their metadata only
MetadataEntry(md) == NewLogEntry(0, "Info", <<>>, <<"a">>, <<>>, md)

MetadataEntries(maxLen) ==
    {[i \in DOMAIN mds |-> MetadataEntry(mds[i])] : mds \in SeqUpTo(MetadataChoices, maxLen)}

\* The metadata pairing over every two short slices of entries
InitMetadata ==
    /\ primary_entries \in MetadataEntries(MaxPrimary)
    /\ secondary_entries \in MetadataEntries(MaxSecondary)
    /\ tolerance = 0
    /\ key = ""
    /\ combined = <<>>
    /\ merged = <<>>
    /\ caller = "none"
    /\ pc = "idle"
    /\ WindowUnused
    /\ result = <<>>
    /\ min_occurrences = 0
    /\ previous = <<>>

NextMetadata == CombineByMetadataKey

SpecMetadata == InitMetadata /\ [][NextMetadata]_vars

----------------------------------------------------------------------------
(* Properties of the combiner *)

AbsDiff(a, b) == IF a >= b THEN a - b ELSE b - a

\* The secondary entries within the tolerance of primary entry i
InTolerance(i) ==
    {j \in DOMAIN secondary_entries :
        AbsDiff(secondary_entries[j].timestamp, primary_entries[i].timestamp) <= tolerance}

\* C4: when several secondary records lie within the tolerance of a primary
\* record, combine_by_timestamp pairs it with the closest in time: no other
\* secondary record is strictly nearer to the primary than the one returned.
C4_PairedWithClosest ==
    Done("combine_by_timestamp") =>
        \A i \in DOMAIN combined :
            combined[i].secondary # <<>> =>
                \A j \in DOMAIN secondary_entries :
                    AbsDiff(secondary_entries[j].timestamp, primary_entries[i].timestamp)
                      >= AbsDiff(secondary_entries[combined[i].secondary[1]].timestamp,
                                 primary_entries[i].timestamp)

\* C5: combine_by_timestamp returns one CombinedEntry per primary record, in
\* primary order; its secondary is None if and only if no secondary record
\* has an absolute timestamp difference <= tolerance (boundary inclusive),
\* and a secondary that is Some is within the tolerance.
C5_OnePairPerPrimaryWithinTolerance ==
    Done("combine_by_timestamp") =>
        /\ Len(combined) = Len(primary_entries)
        /\ \A i \in DOMAIN combined :
              /\ combined[i].primary = i
              /\ combined[i].secondary = <<>> <=> InTolerance(i) = {}
              /\ combined[i].secondary # <<>> => combined[i].secondary[1] \in InTolerance(i)

\* One primary paired with a secondary exactly `tolerance` away, another left
\* unpaired although there are secondary records
C5_Witness ==
    /\ Done("combine_by_timestamp")
    /\ tolerance > 0
    /\ \E i \in DOMAIN combined :
          /\ combined[i].secondary # <<>>
          /\ AbsDiff(secondary_entries[combined[i].secondary[1]].timestamp,
                     primary_entries[i].timestamp) = tolerance
    /\ \E i \in DOMAIN combined : combined[i].secondary = <<>>

\* Position of a reference in primary ++ secondary
ConcatPosition(ref) ==
    IF ref[1] = "primary" THEN ref[2] ELSE Len(primary_entries) + ref[2]

MergedTimestamp(a) == Deref(primary_entries, secondary_entries, merged[a]).timestamp

\* C9: merge_chronologically returns a permutation of primary ++ secondary
\* (every record exactly once) that is non-decreasing in timestamp and
\* stable: records with equal timestamps keep their concatenation order, so
\* at equal timestamp primary records precede secondary records.
C9_MergeIsStableSortedPermutation ==
    Done("merge_chronologically") =>
        /\ Len(merged) = Len(primary_entries) + Len(secondary_entries)
        /\ \A i \in DOMAIN primary_entries :
              Cardinality({a \in DOMAIN merged : merged[a] = <<"primary", i>>}) = 1
        /\ \A j \in DOMAIN secondary_entries :
              Cardinality({a \in DOMAIN merged : merged[a] = <<"secondary", j>>}) = 1
        /\ \A a, b \in DOMAIN merged :
              a < b =>
                 /\ MergedTimestamp(a) <= MergedTimestamp(b)
                 /\ MergedTimestamp(a) = MergedTimestamp(b) =>
                       ConcatPosition(merged[a]) < ConcatPosition(merged[b])

\* A secondary record earlier than every primary comes first, and a primary
\* and a secondary record share a timestamp
C9_Witness ==
    /\ Done("merge_chronologically")
    /\ Len(merged) >= 3
    /\ merged[1][1] = "secondary"
    /\ \E a, b \in DOMAIN merged :
          /\ a < b
          /\ merged[a][1] = "primary"
          /\ merged[b][1] = "secondary"
          /\ MergedTimestamp(a) = MergedTimestamp(b)

\* The secondary entries whose serialized value at `key` is that of primary i
SameSerializedValue(i) ==
    {j \in DOMAIN secondary_entries :
        /\ MetadataGet(secondary_entries[j], key) # <<>>
        /\ ValueToString(MetadataGet(secondary_entries[j], key)[1])
              = ValueToString(MetadataGet(primary_entries[i], key)[1])}

Max(S) == CHOOSE x \in S : \A y \in S : y <= x

\* C10: combine_by_metadata_key(key) returns one CombinedEntry per primary
\* record in primary order; a primary whose metadata contains key is paired
\* with the last secondary record whose serialized value at key equals its
\* own, and with None if there is none; a primary with no metadata or
\* without the key gets None.
C10_MetadataPairsLastMatch ==
    Done("combine_by_metadata_key") =>
        /\ Len(combined) = Len(primary_entries)
        /\ \A i \in DOMAIN combined :
              /\ combined[i].primary = i
              /\ combined[i].secondary =
                    IF MetadataGet(primary_entries[i], key) = <<>> THEN <<>>
                    ELSE IF SameSerializedValue(i) = {} THEN <<>>
                    ELSE <<Max(SameSerializedValue(i))>>

\* A primary paired with the later of two secondary records of its value,
\* the string "1", while a secondary with the number 1 is passed over
C10_Witness ==
    /\ Done("combine_by_metadata_key")
    /\ \E i \in DOMAIN combined :
          /\ combined[i].secondary # <<>>
          /\ Cardinality(SameSerializedValue(i)) >= 2
          /\ \E j \in DOMAIN secondary_entries :
                /\ MetadataGet(secondary_entries[j], key) # <<>>
                /\ j \notin SameSerializedValue(i)
    /\ \E i \in DOMAIN combined :
          /\ MetadataGet(primary_entries[i], key) = <<>>
          /\ combined[i].secondary = <<>>

----------------------------------------------------------------------------
(* LogCombiner::combine_by_source, combine.rs *)

\* PushInto that starts the Vec of a key afresh
PushInto_Replace(m, k, v) == [x \in DOMAIN m \cup {k} |-> IF x = k THEN <<v>> ELSE m[x]]

\* map.entry(k).or_default().push(v)
PushInto(m, k, v) ==
    IF k \in DOMAIN m
    THEN [m EXCEPT ![k] = Append(@, v)]
    ELSE [x \in DOMAIN m \cup {k} |-> IF x = k THEN <<v>> ELSE m[x]]

\* One of the two loops (lines 102-106, 109-113) over the slice es, whose
\* references carry the tag of the slice
RECURSIVE GroupBySourceFrom(_, _, _, _)
GroupBySourceFrom(m, es, tag, i) ==
    IF i > Len(es) THEN m
    ELSE GroupBySourceFrom(IF es[i].source # <<>>
                           THEN PushInto(m, es[i].source[1], <<tag, i>>)
                           ELSE m,
                           es, tag, i + 1)

combine_by_source(prim, sec) ==
    GroupBySourceFrom(GroupBySourceFrom(<<>>, prim, "primary", 1), sec, "secondary", 1)

\* Nothing of the combiner's other methods is in use
PairingUnused ==
    /\ tolerance = 0
    /\ key = ""
    /\ combined = <<>>
    /\ merged = <<>>

\* pub fn combine_by_source(&self)
CombineBySource ==
    /\ pc = "idle"
    /\ result' = combine_by_source(primary_entries, secondary_entries)
    /\ caller' = "combine_by_source"
    /\ pc' = "done"
    /\ UNCHANGED <<min_occurrences, previous, combineVars, windowVars>>

\* Sources the entries are drawn from: none, "web", "db"
Sources == {<<>>, <<"web">>, <<"db">>}

\* Entries that differ in their source only
SourceEntry(src) == NewLogEntry(0, "Info", <<>>, <<"a">>, src, <<>>)

SourceEntries(maxLen) ==
    {[i \in DOMAIN ss |-> SourceEntry(ss[i])] : ss \in SeqUpTo(Sources, maxLen)}

\* The source grouping over every two short slices of entries
InitSource ==
    /\ primary_entries \in SourceEntries(MaxPrimary)
    /\ secondary_entries \in SourceEntries(MaxSecondary)
    /\ PairingUnused
    /\ caller = "none"
    /\ pc = "idle"
    /\ WindowUnused
    /\ result = <<>>
    /\ min_occurrences = 0
    /\ previous = <<>>

NextSource == CombineBySource

SpecSource == InitSource /\ [][NextSource]_vars

\* The references to the records of both slices
AllRefs ==
    {<<"primary", i>> : i \in DOMAIN primary_entries}
        \cup {<<"secondary", j>> : j \in DOMAIN secondary_entries}

RefsWithSource(s) ==
    {r \in AllRefs : Deref(primary_entries, secondary_entries, r).source = <<s>>}

\* C11: combine_by_source returns, for each source s occurring in either
\* input, exactly the records whose source is s: the primary ones in primary
\* order, then the secondary ones in secondary order.  Records without a
\* source are in no group, no group is empty, and the group sizes sum to
\* the number of records that have a source.
C11_GroupsBySource ==
    Done("combine_by_source") =>
        /\ DOMAIN result = {s \in {"web", "db"} : RefsWithSource(s) # {}}
        /\ \A s \in DOMAIN result :
              /\ result[s] # <<>>
              /\ Range(result[s]) = RefsWithSource(s)
              /\ \A a, b \in DOMAIN result[s] :
                    a < b => ConcatPosition(result[s][a]) < ConcatPosition(result[s][b])
        /\ Cardinality(UNION {Range(result[s]) : s \in DOMAIN result})
              = Cardinality({r \in AllRefs :
                    Deref(primary_entries, secondary_entries, r).source # <<>>})

\* Two groups, one with records of both slices, and a record without source
C11_Witness ==
    /\ Done("combine_by_source")
    /\ Cardinality(DOMAIN result) = 2
    /\ \E s \in DOMAIN result :
          /\ Len(result[s]) >= 3
          /\ result[s][1][1] = "primary"
          /\ result[s][Len(result[s])][1] = "secondary"
    /\ \E r \in AllRefs : Deref(primary_entries, secondary_entries, r).source = <<>>

----------------------------------------------------------------------------
(* LogAggregator::calculate_stats, aggregate.rs *)

\* CountInto with `*map.entry(k).or_insert(1) += 1`
CountInto_InsertOne(m, k) ==
    IF k \in DOMAIN m
    THEN [m EXCEPT ![k] = @ + 1]
    ELSE [x \in DOMAIN m \cup {k} |-> IF x = k THEN 2 ELSE m[x]]

\* *map.entry(k).or_insert(0) += 1
CountInto(m, k) ==
    IF k \in DOMAIN m
    THEN [m EXCEPT ![k] = @ + 1]
    ELSE [x \in DOMAIN m \cup {k} |-> IF x = k THEN 1 ELSE m[x]]

\* The loop of lines 38-49; st holds the three maps
RECURSIVE StatsFrom(_, _, _)
StatsFrom(st, es, i) ==
    IF i > Len(es) THEN st
    ELSE StatsFrom([level_counts |-> CountInto(st.level_counts, es[i].level),
                    action_counts |-> CountInto(st.action_counts, es[i].action),
                    source_counts |-> IF es[i].source # <<>>
                                      THEN CountInto(st.source_counts, es[i].source[1])
                                      ELSE st.source_counts],
                   es, i + 1)

calculate_stats(es) ==
    LET st == StatsFrom([level_counts |-> <<>>, action_counts |-> <<>>,
                         source_counts |-> <<>>], es, 1)
    IN  [total_entries |-> Len(es),
         level_counts |-> st.level_counts,
         action_counts |-> st.action_counts,
         source_counts |-> st.source_counts]

\* Nothing of the combiner is in use while the aggregator or analyzer is
CombinerUnused ==
    /\ primary_entries = <<>>
    /\ secondary_entries = <<>>
    /\ PairingUnused

\* The locals and return values of the windowing methods before any call
WindowIdle ==
    /\ window = 0
    /\ threshold = <<0, 1>>
    /\ idx = 0
    /\ window_start = 0
    /\ window_end = 0
    /\ current_entries = <<>>
    /\ series = <<>>
    /\ windows = <<>>
    /\ anomalies = <<>>

\* pub fn calculate_stats(&self)
CalculateStats ==
    /\ pc = "idle"
    /\ result' = calculate_stats(entries)
    /\ caller' = "calculate_stats"
    /\ pc' = "done"
    /\ UNCHANGED <<min_occurrences, previous, combineVars, windowVars>>

\* Levels and actions the entries of the statistics are drawn from
StatsLevels == {"Error", "Info"}
StatsActions == {<<"l", "o", "g", "i", "n">>, <<"v", "i", "e", "w">>}

StatsEntries(maxLen) ==
    {[i \in DOMAIN fs |-> NewLogEntry(0, fs[i][1], <<>>, fs[i][2], fs[i][3], <<>>)] :
        fs \in SeqUpTo(StatsLevels \X StatsActions \X Sources, maxLen)}

\* The statistics over every short slice of entries
InitStats ==
    /\ entries \in StatsEntries(MaxStatsLen)
    /\ WindowIdle
    /\ CombinerUnused
    /\ caller = "none"
    /\ pc = "idle"
    /\ result = <<>>
    /\ min_occurrences = 0
    /\ previous = <<>>

NextStats == CalculateStats

SpecStats == InitStats /\ [][NextStats]_vars

\* Sum of the values of a map
RECURSIVE SumOfValues(_)
SumOfValues(m) ==
    IF DOMAIN m = {} THEN 0
    ELSE LET k == CHOOSE x \in DOMAIN m : TRUE
         IN  m[k] + SumOfValues([x \in DOMAIN m \ {k} |-> m[x]])

\* C17: calculate_stats counts exactly: total_entries is the input length,
\* the level counts and the action counts each sum to it, the source counts
\* sum to the number of records that have a source, and each count is the
\* number of records with that level / action / source.
C17_StatsCountExactly ==
    Done("calculate_stats") =>
        /\ result.total_entries = Len(entries)
        /\ SumOfValues(result.level_counts) = result.total_entries
        /\ SumOfValues(result.action_counts) = result.total_entries
        /\ SumOfValues(result.source_counts)
              = Cardinality({i \in DOMAIN entries : entries[i].source # <<>>})
        /\ DOMAIN result.level_counts = {entries[i].level : i \in DOMAIN entries}
        /\ DOMAIN result.action_counts = {entries[i].action : i \in DOMAIN entries}
        /\ DOMAIN result.source_counts =
              {entries[i].source[1] : i \in {j \in DOMAIN entries : entries[j].source # <<>>}}
        /\ \A l \in DOMAIN result.level_counts :
              result.level_counts[l]
                 = Cardinality({i \in DOMAIN entries : entries[i].level = l})
        /\ \A a \in DOMAIN result.action_counts :
              result.action_counts[a]
                 = Cardinality({i \in DOMAIN entries : entries[i].action = a})
        /\ \A src \in DOMAIN result.source_counts :
              result.source_counts[src]
                 = Cardinality({i \in DOMAIN entries : entries[i].source = <<src>>})

\* Two levels, a source counted twice and a record without source
C17_Witness ==
    /\ Done("calculate_stats")
    /\ result.total_entries = 3
    /\ Cardinality(DOMAIN result.level_counts) = 2
    /\ \E src \in DOMAIN result.source_counts : result.source_counts[src] = 2
    /\ \E i \in DOMAIN entries : entries[i].source = <<>>

----------------------------------------------------------------------------
(* LogAggregator::calculate_time_stats, aggregate.rs *)

\* A DateTime counts ticks finer than a millisecond: TicksPerMilli of them
\* make one millisecond (chrono keeps nanoseconds)
TicksPerMilli == 2

\* The divisor 3_600_000.0 of line 76
MillisPerHour == 3600000

TicksPerHour == MillisPerHour * TicksPerMilli

\* Duration::num_milliseconds: whole milliseconds, truncated toward zero
num_milliseconds(d) ==
    IF d >= 0 THEN d \div TicksPerMilli ELSE 0 - ((0 - d) \div TicksPerMilli)

MinTimestamp(es) ==
    CHOOSE t \in {es[i].timestamp : i \in DOMAIN es} :
        \A i \in DOMAIN es : t <= es[i].timestamp

MaxTimestamp(es) ==
    CHOOSE t \in {es[i].timestamp : i \in DOMAIN es} :
        \A i \in DOMAIN es : t >= es[i].timestamp

\* calculate_time_stats that answers an empty slice with Some(zeroed TimeStats)
calculate_time_stats_Default(es) ==
    IF es = <<>>
    THEN << [start_time |-> 0, end_time |-> 0,
             duration_hours |-> <<0, MillisPerHour>>,
             entries_per_hour |-> <<0, 1>>] >>
    ELSE << [start_time |-> MinTimestamp(es),
             end_time |-> MaxTimestamp(es),
             duration_hours |->
                 <<num_milliseconds(MaxTimestamp(es) - MinTimestamp(es)), MillisPerHour>>,
             entries_per_hour |->
                 IF num_milliseconds(MaxTimestamp(es) - MinTimestamp(es)) > 0
                 THEN <<Len(es) * MillisPerHour,
                        num_milliseconds(MaxTimestamp(es) - MinTimestamp(es))>>
                 ELSE <<Len(es), 1>>] >>

\* An f64 is the exact fraction <<numerator, denominator>>
calculate_time_stats(es) ==
    IF es = <<>> THEN <<>>
    ELSE LET start_time == MinTimestamp(es)
             end_time == MaxTimestamp(es)
             millis == num_milliseconds(end_time - start_time)
             duration_hours == <<millis, MillisPerHour>>
             entries_per_hour ==
                 IF duration_hours[1] > 0
                 THEN <<Len(es) * MillisPerHour, millis>>
                 ELSE <<Len(es), 1>>
         IN  << [start_time |-> start_time,
                 end_time |-> end_time,
                 duration_hours |-> duration_hours,
                 entries_per_hour |-> entries_per_hour] >>

\* pub fn calculate_time_stats(&self)
CalculateTimeStats ==
    /\ pc = "idle"
    /\ result' = calculate_time_stats(entries)
    /\ caller' = "calculate_time_stats"
    /\ pc' = "done"
    /\ UNCHANGED <<min_occurrences, previous, combineVars, windowVars>>

\* Instants half a millisecond, one millisecond and one hour apart
StatsTimestamps == {0, 1, TicksPerMilli, TicksPerMilli + 1, TicksPerHour}

StatsTimedEntries(maxLen) ==
    {[i \in DOMAIN ts |-> TimedEntry(ts[i])] : ts \in SeqUpTo(StatsTimestamps, maxLen)}

InitTimeStats ==
    /\ entries \in StatsTimedEntries(MaxStatsLen)
    /\ WindowIdle
    /\ CombinerUnused
    /\ caller = "none"
    /\ pc = "idle"
    /\ result = <<>>
    /\ min_occurrences = 0
    /\ previous = <<>>

NextTimeStats == CalculateTimeStats

SpecTimeStats == InitTimeStats /\ [][NextTimeStats]_vars

RECURSIVE Gcd(_, _)
Gcd(a, b) == IF b = 0 THEN a ELSE Gcd(b, a % b)

\* A fraction of non-negative terms in lowest terms
Reduced(f) == LET g == Gcd(f[1], f[2]) IN <<f[1] \div g, f[2] \div g>>

\* C18: for a non-empty input in any order start_time / end_time are the
\* minimum / maximum timestamp, entries_per_hour is the record count divided
\* by the elapsed hours whenever the maximum is later than the minimum, and
\* the raw record count when all records share one timestamp; two records
\* one hour apart give 2.0.
C18_EntriesPerHourIsCountOverElapsed ==
    (Done("calculate_time_stats") /\ entries # <<>>) =>
        /\ result # <<>>
        /\ result[1].start_time = MinTimestamp(entries)
        /\ result[1].end_time = MaxTimestamp(entries)
        /\ LET elapsed == MaxTimestamp(entries) - MinTimestamp(entries)
               eph == Reduced(result[1].entries_per_hour)
           IN  /\ elapsed > 0 => eph = Reduced(<<Len(entries) * TicksPerHour, elapsed>>)
               /\ elapsed = 0 => eph = <<Len(entries), 1>>
               /\ (Len(entries) = 2 /\ elapsed = TicksPerHour) => eph = <<2, 1>>

----------------------------------------------------------------------------
(* LogAggregator::aggregate_metadata_values, aggregate.rs *)

\* The loop that counts a record without the key under the text null
RECURSIVE MetadataCountsFrom_CountMissing(_, _, _, _)
MetadataCountsFrom_CountMissing(m, es, k, i) ==
    IF i > Len(es) THEN m
    ELSE LET value == MetadataGet(es[i], k)
         IN  MetadataCountsFrom_CountMissing(
                 IF value # <<>> THEN CountInto(m, ValueToString(value[1]))
                 ELSE CountInto(m, <<"n", "u", "l", "l">>),
                 es, k, i + 1)

\* The loop of lines 126-133
RECURSIVE MetadataCountsFrom(_, _, _, _)
MetadataCountsFrom(m, es, k, i) ==
    IF i > Len(es) THEN m
    ELSE LET value == MetadataGet(es[i], k)
         IN  MetadataCountsFrom(
                 IF value # <<>> THEN CountInto(m, ValueToString(value[1])) ELSE m,
                 es, k, i + 1)

aggregate_metadata_values(es, k) == MetadataCountsFrom(<<>>, es, k, 1)

\* The keys asked for: those of the metadata and one no record has
AggregateKeys == Keys \cup {"missing"}

\* pub fn aggregate_metadata_values(&self, key: &str)
AggregateMetadataValues ==
    /\ pc = "idle"
    /\ \E k \in AggregateKeys :
          /\ key' = k
          /\ result' = aggregate_metadata_values(entries, k)
    /\ caller' = "aggregate_metadata_values"
    /\ pc' = "done"
    /\ UNCHANGED <<min_occurrences, previous, windowVars>>
    /\ UNCHANGED <<primary_entries, secondary_entries, tolerance, combined, merged>>

InitAggregateMetadata ==
    /\ entries \in MetadataEntries(MaxStatsLen)
    /\ WindowIdle
    /\ CombinerUnused
    /\ caller = "none"
    /\ pc = "idle"
    /\ result = <<>>
    /\ min_occurrences = 0
    /\ previous = <<>>

NextAggregateMetadata == AggregateMetadataValues

SpecAggregateMetadata == InitAggregateMetadata /\ [][NextAggregateMetadata]_vars

\* The records whose metadata has the key
HavingKey == {i \in DOMAIN entries : MetadataGet(entries[i], key) # <<>>}

\* C19: aggregate_metadata_values(key) maps each distinct serialized value
\* to the number of records whose metadata has the key with that serialized
\* value; records without metadata or without the key contribute nothing,
\* the counts sum to the number of records that have the key, and a key no
\* record has yields no entry.
C19_MetadataValueCounts ==
    Done("aggregate_metadata_values") =>
        /\ DOMAIN result =
              {ValueToString(MetadataGet(entries[i], key)[1]) : i \in HavingKey}
        /\ \A v \in DOMAIN result :
              result[v] = Cardinality({i \in HavingKey :
                              ValueToString(MetadataGet(entries[i], key)[1]) = v})
        /\ SumOfValues(result) = Cardinality(HavingKey)
        /\ key = "missing" => result = <<>>

\* Two serialized values of one key beside a record without the key
C19_Witness ==
    /\ Done("aggregate_metadata_values")
    /\ Cardinality(DOMAIN result) = 2
    /\ Cardinality(HavingKey) < Len(entries)

----------------------------------------------------------------------------
(* LogAnalyzer::detect_patterns and extract_message_pattern, analyze.rs *)

\* The characters of a message: a letter, a decimal digit, a space and the
\* fraction one half (U+00BD), which char::is_numeric accepts as it does
\* every character of the Unicode categories Nd, Nl and No
DecimalDigits == {"1"}
Characters == {"a", " ", "U+00BD"} \cup DecimalDigits

is_whitespace(c) == c = " "

is_numeric(c) == c \in DecimalDigits \cup {"U+00BD"}

\* str::split_whitespace: the maximal runs of characters that are not
\* whitespace, none of them empty
RECURSIVE SplitFrom(_, _, _, _)
SplitFrom(text, i, word, words) ==
    LET closed == IF word # <<>> THEN Append(words, word) ELSE words
    IN  IF i > Len(text) THEN closed
        ELSE IF is_whitespace(text[i]) THEN SplitFrom(text, i + 1, <<>>, closed)
        ELSE SplitFrom(text, i + 1, Append(word, text[i]), words)

split_whitespace(text) == SplitFrom(text, 1, <<>>, <<>>)

\* join that writes the separator after every word, the last included
RECURSIVE Join_TrailingSeparator(_, _)
Join_TrailingSeparator(words, sep) ==
    IF words = <<>> THEN <<>>
    ELSE words[1] \o sep \o Join_TrailingSeparator(Tail(words), sep)

\* [String]::join(sep)
RECURSIVE Join(_, _)
Join(words, sep) ==
    IF words = <<>> THEN <<>>
    ELSE IF Len(words) = 1 THEN words[1]
    ELSE words[1] \o sep \o Join(Tail(words), sep)

extract_message_pattern(message) ==
    LET words == split_whitespace(message)
    IN  Join([w \in DOMAIN words |->
                 IF \A c \in DOMAIN words[w] : is_numeric(words[w][c])
                 THEN <<"#">>
                 ELSE words[w]],
             <<" ">>)

\* The loop of lines 80-83: the indices of the entries under their pattern
RECURSIVE PatternGroupsFrom(_, _, _)
PatternGroupsFrom(m, es, i) ==
    IF i > Len(es) THEN m
    ELSE PatternGroupsFrom(PushInto(m, extract_message_pattern(es[i].message), i),
                           es, i + 1)

MinOf(S) == CHOOSE x \in S : \A y \in S : x <= y

\* The closure of lines 89-104 on one group
NewPatternAnalysis(pattern, group, es) ==
    [pattern |-> pattern,
     occurrences |-> Len(group),
     first_seen |-> MinOf({es[group[g]].timestamp : g \in DOMAIN group}),
     last_seen |-> Max({es[group[g]].timestamp : g \in DOMAIN group}),
     related_actions |-> {es[group[g]].action : g \in DOMAIN group}]

\* PatternAnalysesFrom with the filter `entries.len() > min_occurrences`
RECURSIVE PatternAnalysesFrom_Gt(_, _, _, _, _)
PatternAnalysesFrom_Gt(patterns, order, min, es, j) ==
    IF j > Len(order) THEN <<>>
    ELSE LET group == patterns[order[j]]
             rest == PatternAnalysesFrom_Gt(patterns, order, min, es, j + 1)
         IN  IF Len(group) > min
             THEN <<NewPatternAnalysis(order[j], group, es)>> \o rest
             ELSE rest

\* into_iter().filter(..).map(..).collect() over the groups in the order
\* the map yields them
RECURSIVE PatternAnalysesFrom(_, _, _, _, _)
PatternAnalysesFrom(patterns, order, min, es, j) ==
    IF j > Len(order) THEN <<>>
    ELSE LET group == patterns[order[j]]
             rest == PatternAnalysesFrom(patterns, order, min, es, j + 1)
         IN  IF Len(group) >= min
             THEN <<NewPatternAnalysis(order[j], group, es)>> \o rest
             ELSE rest

PatternGroups(es) == PatternGroupsFrom(<<>>, es, 1)

detect_patterns(es, min, order) ==
    PatternAnalysesFrom(PatternGroups(es), order, min, es, 1)

\* pub fn detect_patterns(&self, min_occurrences: usize)
DetectPatterns ==
    /\ pc = "idle"
    /\ \E min \in 0..MaxOccurrences :
       \E order \in IterationOrders(PatternGroups(entries)) :
          /\ min_occurrences' = min
          /\ result' = detect_patterns(entries, min, order)
    /\ caller' = "detect_patterns"
    /\ pc' = "done"
    /\ UNCHANGED <<previous, combineVars, windowVars>>

Messages == SeqUpTo(Characters, MaxMsgLen)

\* Two entries that differ in their messages only
MessageEntries ==
    {[i \in 1..2 |-> NewLogEntry(i - 1, "Info", ms[i], <<"a">>, <<>>, <<>>)] :
        ms \in [1..2 -> Messages]}

InitPatterns ==
    /\ entries \in MessageEntries
    /\ WindowIdle
    /\ CombinerUnused
    /\ caller = "none"
    /\ pc = "idle"
    /\ result = <<>>
    /\ min_occurrences = 0
    /\ previous = <<>>

NextPatterns == DetectPatterns

SpecPatterns == InitPatterns /\ [][NextPatterns]_vars

\* The normalization as stated: a token made only of decimal digits becomes
\* the placeholder, every other token is kept, single spaces between
DigitTemplate(message) ==
    LET words == split_whitespace(message)
    IN  Join([w \in DOMAIN words |->
                 IF \A c \in DOMAIN words[w] : words[w][c] \in DecimalDigits
                 THEN <<"#">>
                 ELSE words[w]],
             <<" ">>)

\* C20: pattern normalization replaces exactly the whitespace-delimited
\* tokens made only of decimal digits by # and rejoins the tokens with single
\* spaces, so detect_patterns groups two messages under one template if and
\* only if they have the same token sequence after that replacement; two
\* messages that differ in a number only form one group of 2.
C20_DigitTokensReplaced ==
    (Done("detect_patterns") /\ min_occurrences <= 1) =>
        /\ {result[j].pattern : j \in DOMAIN result}
              = {DigitTemplate(entries[i].message) : i \in DOMAIN entries}
        /\ \A j \in DOMAIN result :
              result[j].occurrences
                 = Cardinality({i \in DOMAIN entries :
                       DigitTemplate(entries[i].message) = result[j].pattern})

----------------------------------------------------------------------------
(* LogAnalyzer::analyze_errors and extract_error_code, analyze.rs *)

\* The text UNKNOWN
UNKNOWN == <<"U", "N", "K", "N", "O", "W", "N">>

extract_error_code(entry) ==
    LET v == MetadataGet(entry, "error_code")
    IN  IF v # <<>> THEN ValueToString(v[1]) ELSE UNKNOWN

\* The loop without the test of line 114, every level grouped
RECURSIVE ErrorGroupsFrom_AllLevels(_, _, _)
ErrorGroupsFrom_AllLevels(m, es, i) ==
    IF i > Len(es) THEN m
    ELSE ErrorGroupsFrom_AllLevels(PushInto(m, extract_error_code(es[i]), i), es, i + 1)

\* The loop of lines 113-118: the indices of the Error entries under their code
RECURSIVE ErrorGroupsFrom(_, _, _)
ErrorGroupsFrom(m, es, i) ==
    IF i > Len(es) THEN m
    ELSE ErrorGroupsFrom(IF es[i].level = "Error"
                         THEN PushInto(m, extract_error_code(es[i]), i)
                         ELSE m,
                         es, i + 1)

ErrorGroups(es) == ErrorGroupsFrom(<<>>, es, 1)

\* NewErrorAnalysis whose first and last occurrence are those of the first
\* and last member
NewErrorAnalysis_FirstLastMember(error_code, group, es) ==
    [error_code |-> error_code,
     frequency |-> Len(group),
     first_occurrence |-> es[group[1]].timestamp,
     last_occurrence |-> es[group[Len(group)]].timestamp,
     related_messages |-> [g \in DOMAIN group |-> es[group[g]].message]]

\* The closure of lines 123-131 on one group
NewErrorAnalysis(error_code, group, es) ==
    [error_code |-> error_code,
     frequency |-> Len(group),
     first_occurrence |-> MinOf({es[group[g]].timestamp : g \in DOMAIN group}),
     last_occurrence |-> Max({es[group[g]].timestamp : g \in DOMAIN group}),
     related_messages |-> [g \in DOMAIN group |-> es[group[g]].message]]

\* analyze_errors that leaves out the group the map yields last
analyze_errors_DropLast(es, order) ==
    [j \in 1..(Len(order) - 1) |->
        NewErrorAnalysis(order[j], ErrorGroups(es)[order[j]], es)]

\* into_iter().map(..).collect() over the groups in the order the map yields
analyze_errors(es, order) ==
    [j \in DOMAIN order |->
        NewErrorAnalysis(order[j], ErrorGroups(es)[order[j]], es)]

\* pub fn analyze_errors(&self), called once or a second time on the same
\* entries; each call builds a HashMap of its own
AnalyzeErrors ==
    /\ \/ pc = "idle"
       \/ Done("analyze_errors") /\ previous = <<>>
    /\ \E order \in IterationOrders(ErrorGroups(entries)) :
          result' = analyze_errors(entries, order)
    /\ previous' = IF pc = "idle" THEN <<>> ELSE <<result>>
    /\ caller' = "analyze_errors"
    /\ pc' = "done"
    /\ UNCHANGED <<min_occurrences, combineVars, windowVars>>

\* The metadata of an error: none, a string code, a number code
ErrorMetadata ==
    {<<>>,
     <<JObject({<<"error_code", JString(<<"1">>)>>})>>,
     <<JObject({<<"error_code", JNumber(<<"1">>)>>})>>}

ErrorEntries(maxLen) ==
    {[i \in DOMAIN fs |-> NewLogEntry(fs[i][1], fs[i][2], <<"e">>, <<"a">>, <<>>, fs[i][3])] :
        fs \in SeqUpTo((0..1) \X StatsLevels \X ErrorMetadata, maxLen)}

InitErrors ==
    /\ entries \in ErrorEntries(MaxStatsLen)
    /\ WindowIdle
    /\ CombinerUnused
    /\ caller = "none"
    /\ pc = "idle"
    /\ result = <<>>
    /\ min_occurrences = 0
    /\ previous = <<>>

NextErrors == AnalyzeErrors

SpecErrors == InitErrors /\ [][NextErrors]_vars

\* analyze_errors has run twice on the same entries
RanTwice == Done("analyze_errors") /\ previous # <<>>

\* C14 as stated: two runs of analyze_errors on the same record sequence
\* return the same sequence of ErrorAnalysis values in the same order.
C14_SameSequenceTwice ==
    RanTwice => result = previous[1]

\* C14: two runs of analyze_errors on the same record sequence return the
\* same ErrorAnalysis values, as many in one run as in the other, in an
\* order that may differ from run to run.
C14_SameValuesTwice ==
    RanTwice =>
        /\ Len(result) = Len(previous[1])
        /\ Range(result) = Range(previous[1])

\* Two runs that return two or more clusters in different orders
C14_Witness ==
    /\ RanTwice
    /\ Len(result) >= 2
    /\ result # previous[1]

----------------------------------------------------------------------------
(* Every operation of LogAggregator and LogAnalyzer over one slice *)

InitAnalysis ==
    /\ entries \in ErrorEntries(MaxAnalysisLen)
    /\ WindowIdle
    /\ CombinerUnused
    /\ caller = "none"
    /\ pc = "idle"
    /\ result = <<>>
    /\ min_occurrences = 0
    /\ previous = <<>>

NextAnalysis ==
    \/ CalculateStats
    \/ CalculateTimeStats
    \/ GroupByWindow
    \/ AggregateMetadataValues
    \/ GenerateTimeSeries
    \/ TsAdvance
    \/ TsPush
    \/ TsReturn
    \/ DetectAnomalies
    \/ AnomalyScan
    \/ DetectPatterns
    \/ AnalyzeErrors

SpecAnalysis == InitAnalysis /\ [][NextAnalysis]_vars

\* C16: on an empty record sequence no analysis operation fails:
\* calculate_time_stats returns None, group_by_window and
\* generate_time_series return an empty sequence, detect_anomalies,
\* detect_patterns and analyze_errors return empty results, and
\* calculate_stats returns total 0 with empty count maps.
C16_EmptyInputYieldsEmptyResults ==
    entries = <<>> =>
        /\ pc \in {"idle", "returned", "done"}
        /\ Done("calculate_time_stats") => result = <<>>
        /\ Done("group_by_window") => windows = <<>>
        /\ Done("generate_time_series") => series = <<>>
        /\ Done("detect_anomalies") => series = <<>> /\ anomalies = <<>>
        /\ Done("detect_patterns") => result = <<>>
        /\ Done("analyze_errors") => result = <<>>
        /\ Done("calculate_stats") =>
              /\ result.total_entries = 0
              /\ result.level_counts = <<>>
              /\ result.action_counts = <<>>
              /\ result.source_counts = <<>>

\* calculate_time_stats has returned on an empty slice
C16_Witness ==
    /\ entries = <<>>
    /\ Done("calculate_time_stats")

----------------------------------------------------------------------------
(* detect_patterns over slices whose messages repeat *)

\* Messages of three templates: a word, two numbers, a word and a number
RepeatedMessages ==
    {<<"a">>, <<"1">>, <<"1", "1">>, <<"a", " ", "1">>}

RepeatedMessageEntries(maxLen) ==
    {[i \in DOMAIN ms |-> NewLogEntry(i - 1, "Info", ms[i], <<"a">>, <<>>, <<>>)] :
        ms \in SeqUpTo(RepeatedMessages, maxLen)}

InitPatternCounts ==
    /\ entries \in RepeatedMessageEntries(MaxStatsLen)
    /\ WindowIdle
    /\ CombinerUnused
    /\ caller = "none"
    /\ pc = "idle"
    /\ result = <<>>
    /\ min_occurrences = 0
    /\ previous = <<>>

NextPatternCounts == DetectPatterns

SpecPatternCounts == InitPatternCounts /\ [][NextPatternCounts]_vars

\* The records whose message has the template t
WithTemplate(t) ==
    {i \in DOMAIN entries : extract_message_pattern(entries[i].message) = t}

TemplatesOfEntries ==
    {extract_message_pattern(entries[i].message) : i \in DOMAIN entries}

\* C21: detect_patterns(min_occurrences) emits a PatternAnalysis for a
\* template if and only if the number of records with that template is
\* >= min_occurrences; each emitted group's occurrences is that number, no
\* template is emitted twice, and the occurrences of the emitted groups sum
\* to at most the input length, with equality when min_occurrences <= 1.
C21_EmittedIffAtLeastMin ==
    Done("detect_patterns") =>
        /\ {result[j].pattern : j \in DOMAIN result}
              = {t \in TemplatesOfEntries : Cardinality(WithTemplate(t)) >= min_occurrences}
        /\ \A j \in DOMAIN result :
              result[j].occurrences = Cardinality(WithTemplate(result[j].pattern))
        /\ \A j, k \in DOMAIN result : j # k => result[j].pattern # result[k].pattern
        /\ SumSeq([j \in DOMAIN result |-> result[j].occurrences]) <= Len(entries)
        /\ min_occurrences <= 1 =>
              SumSeq([j \in DOMAIN result |-> result[j].occurrences]) = Len(entries)

\* A template with exactly min_occurrences records is emitted while a
\* template with fewer is left out
C21_Witness ==
    /\ Done("detect_patterns")
    /\ min_occurrences = 2
    /\ \E j \in DOMAIN result : result[j].occurrences = min_occurrences
    /\ \E t \in TemplatesOfEntries : Cardinality(WithTemplate(t)) < min_occurrences

----------------------------------------------------------------------------
(* Properties of analyze_errors *)

ErrorRecords == {i \in DOMAIN entries : entries[i].level = "Error"}

\* The code of a record as stated: the serialized value at error_code when
\* the metadata has one, the text UNKNOWN otherwise
CodeOf(i) ==
    IF /\ entries[i].metadata # <<>>
       /\ ValueGet(entries[i].metadata[1], "error_code") # <<>>
    THEN ValueToString(ValueGet(entries[i].metadata[1], "error_code")[1])
    ELSE UNKNOWN

ErrorsWithCode(c) == {i \in ErrorRecords : CodeOf(i) = c}

\* C22: analyze_errors partitions exactly the Error-level records by error
\* code (the serialized error_code value, UNKNOWN without one): exactly one
\* ErrorAnalysis per distinct code, its frequency the number of Error
\* records with that code, codes occurring once are reported, non-Error
\* records contribute nothing, and the frequencies sum to the number of
\* Error-level records.
C22_ErrorsPartitionedByCode ==
    Done("analyze_errors") =>
        /\ {result[j].error_code : j \in DOMAIN result} = {CodeOf(i) : i \in ErrorRecords}
        /\ \A j, k \in DOMAIN result :
              j # k => result[j].error_code # result[k].error_code
        /\ \A j \in DOMAIN result :
              result[j].frequency = Cardinality(ErrorsWithCode(result[j].error_code))
        /\ SumSeq([j \in DOMAIN result |-> result[j].frequency]) = Cardinality(ErrorRecords)

\* Two codes, one of them occurring once, beside a record that is no error
C22_Witness ==
    /\ Done("analyze_errors")
    /\ Len(result) = 2
    /\ \E j \in DOMAIN result : result[j].frequency = 1
    /\ ErrorRecords # DOMAIN entries

----------------------------------------------------------------------------
(* analyze_errors over errors that differ in message and timestamp *)

ErrorTexts == {<<"x">>, <<"y">>}

ErrorCodes == {<<>>, <<JObject({<<"error_code", JString(<<"1">>)>>})>>}

ErrorMessageEntries(maxLen) ==
    {[i \in DOMAIN fs |-> NewLogEntry(fs[i][1], "Error", fs[i][2], <<"a">>, <<>>, fs[i][3])] :
        fs \in SeqUpTo((0..1) \X ErrorTexts \X ErrorCodes, maxLen)}

InitErrorMessages ==
    /\ entries \in ErrorMessageEntries(MaxStatsLen)
    /\ WindowIdle
    /\ CombinerUnused
    /\ caller = "none"
    /\ pc = "idle"
    /\ result = <<>>
    /\ min_occurrences = 0
    /\ previous = <<>>

NextErrorMessages == AnalyzeErrors

SpecErrorMessages == InitErrorMessages /\ [][NextErrorMessages]_vars

\* The members of a code in input order
RECURSIVE MembersFrom(_, _)
MembersFrom(c, i) ==
    IF i > Len(entries) THEN <<>>
    ELSE IF i \in ErrorsWithCode(c) THEN <<i>> \o MembersFrom(c, i + 1)
    ELSE MembersFrom(c, i + 1)

\* C23: in every ErrorAnalysis, related_messages lists the message of every
\* member in the members' original relative input order, one entry per
\* member, duplicates kept, so its length is the frequency; first_occurrence
\* and last_occurrence are the minimum and maximum member timestamps, also
\* when the input is not time-sorted.
C23_MessagesInInputOrderAndTimeRange ==
    Done("analyze_errors") =>
        \A j \in DOMAIN result :
            LET members == MembersFrom(result[j].error_code, 1)
            IN  /\ result[j].related_messages
                      = [g \in DOMAIN members |-> entries[members[g]].message]
                /\ Len(result[j].related_messages) = result[j].frequency
                /\ \A g \in DOMAIN members :
                      /\ result[j].first_occurrence <= entries[members[g]].timestamp
                      /\ result[j].last_occurrence >= entries[members[g]].timestamp
                /\ \E g \in DOMAIN members :
                      result[j].first_occurrence = entries[members[g]].timestamp
                /\ \E g \in DOMAIN members :
                      result[j].last_occurrence = entries[members[g]].timestamp
                /\ result[j].first_occurrence <= result[j].last_occurrence

\* A cluster whose members are not in time order and repeat a message
C23_Witness ==
    /\ Done("analyze_errors")
    /\ \E j \in DOMAIN result :
          LET members == MembersFrom(result[j].error_code, 1)
          IN  /\ Len(members) >= 2
              /\ entries[members[1]].timestamp > entries[members[2]].timestamp
              /\ entries[members[1]].message = entries[members[2]].message
              /\ Len(members) < Len(entries)

----------------------------------------------------------------------------
(* generate_time_series alone; the call runs on its one thread until it *)
(* returns or panics, so a step that can be taken is taken              *)

NextTimeSeries ==
    \/ GenerateTimeSeries
    \/ TsAdvance
    \/ TsPush
    \/ TsReturn

FairSpecTimeSeries == InitWindow /\ [][NextTimeSeries]_vars /\ WF_vars(NextTimeSeries)

----------------------------------------------------------------------------
(* group_by_window against generate_time_series *)

\* Start and size of each bucket group_by_window returns
WindowStartsAndSizes(ws) == [j \in DOMAIN ws |-> <<ws[j][1], Len(ws[j][2])>>]

\* Start and count of each bucket of a time series
SeriesStartsAndCounts(ts) == [j \in DOMAIN ts |-> <<ts[j].timestamp, ts[j].count>>]

\* C25: the two windowing implementations agree: for every
\* timestamp-ascending record sequence and every w > 0, group_by_window and
\* generate_time_series return the same sequence of bucket start timestamps
\* with the same number of records per bucket.
C25_WindowingsAgree ==
    (Done("generate_time_series") /\ IsAscending(entries) /\ window > 0) =>
        SeriesStartsAndCounts(series)
            = WindowStartsAndSizes(group_by_window(entries, window))

----------------------------------------------------------------------------
(* Properties of combine_by_timestamp under the iteration orders *)

PairedPrimaries(c) == {i \in DOMAIN c : c[i].secondary # <<>>}

\* What the call returns under another iteration order of secondary_map
CombinedUnder(order) ==
    combine_by_timestamp(primary_entries, secondary_entries, tolerance, order)

\* C26: whether a primary record is paired at all does not depend on the
\* iteration order of the secondary map: for a fixed input and tolerance
\* every iteration order gives the same set of paired primaries; only the
\* identity of the chosen in-tolerance secondary can differ.
C26_PairedSetIsOrderIndependent ==
    Done("combine_by_timestamp") =>
        \A order \in IterationOrders(TimestampMap(secondary_entries)) :
            /\ PairedPrimaries(CombinedUnder(order)) = PairedPrimaries(combined)
            /\ \A i \in PairedPrimaries(combined) :
                  CombinedUnder(order)[i].secondary[1] \in InTolerance(i)

\* Another order pairs a primary with a different secondary
C26_Witness ==
    /\ Done("combine_by_timestamp")
    /\ \E order \in IterationOrders(TimestampMap(secondary_entries)) :
       \E i \in PairedPrimaries(combined) :
          CombinedUnder(order)[i].secondary # combined[i].secondary

\* C27: secondary records are indexed by timestamp, so among secondary
\* records that share one timestamp only the last in secondary order can be
\* returned as a match; an earlier one is never paired with any primary,
\* while one secondary may be paired with several primaries.
C27_OnlyLastOfEqualTimestamps ==
    Done("combine_by_timestamp") =>
        \A i \in PairedPrimaries(combined) :
            \A j \in DOMAIN secondary_entries :
                secondary_entries[j].timestamp
                    = secondary_entries[combined[i].secondary[1]].timestamp
                => j <= combined[i].secondary[1]

\* Two primaries paired with the same secondary, the last of two with one
\* timestamp
C27_Witness ==
    /\ Done("combine_by_timestamp")
    /\ \E i, k \in PairedPrimaries(combined) :
          /\ i # k
          /\ combined[i].secondary = combined[k].secondary
          /\ \E j \in DOMAIN secondary_entries :
                /\ j < combined[i].secondary[1]
                /\ secondary_entries[j].timestamp
                      = secondary_entries[combined[i].secondary[1]].timestamp

----------------------------------------------------------------------------
(* analyze_errors over errors with and without an error_code *)

\* Values of error_code: the string UNKNOWN, another string, a number, null
ErrorCodeValues == {JString(UNKNOWN), JString(<<"1">>), JNumber(<<"1">>), JNull}

\* No metadata, metadata without error_code, metadata with an error_code
SentinelMetadata ==
    {<<>>, <<JObject({<<"user", JString(UNKNOWN)>>})>>}
        \cup {<<JObject({<<"error_code", v>>})>> : v \in ErrorCodeValues}

SentinelEntries(maxLen) ==
    {[i \in DOMAIN mds |-> NewLogEntry(0, "Error", <<"e">>, <<"a">>, <<>>, mds[i])] :
        mds \in SeqUpTo(SentinelMetadata, maxLen)}

InitSentinel ==
    /\ entries \in SentinelEntries(MaxStatsLen)
    /\ WindowIdle
    /\ CombinerUnused
    /\ caller = "none"
    /\ pc = "idle"
    /\ result = <<>>
    /\ min_occurrences = 0
    /\ previous = <<>>

NextSentinel == AnalyzeErrors

SpecSentinel == InitSentinel /\ [][NextSentinel]_vars

HasErrorCode(i) == MetadataGet(entries[i], "error_code") # <<>>

\* The Error records that carry an error_code serialized as c
CarryingCode(c) ==
    {i \in ErrorRecords :
        /\ HasErrorCode(i)
        /\ ValueToString(MetadataGet(entries[i], "error_code")[1]) = c}

\* The Error records without error_code, members of the cluster UNKNOWN only
LackingCode(c) ==
    {i \in ErrorRecords : ~HasErrorCode(i) /\ c = UNKNOWN}

\* C28: an Error record that carries an error_code value is never placed in
\* the cluster of an Error record that lacks error_code, whatever the value
\* is, the string "UNKNOWN" included: a serialized metadata value never
\* equals the bare sentinel UNKNOWN.
C28_SentinelClusterHoldsNoCode ==
    Done("analyze_errors") =>
        \A j \in DOMAIN result :
            /\ result[j].frequency
                  = Cardinality(CarryingCode(result[j].error_code))
                      + Cardinality(LackingCode(result[j].error_code))
            /\ CarryingCode(result[j].error_code) = {}
                  \/ LackingCode(result[j].error_code) = {}

\* A record whose error_code is the string UNKNOWN beside a record without
\* error_code, in two clusters
C28_Witness ==
    /\ Done("analyze_errors")
    /\ \E i, k \in ErrorRecords :
          /\ HasErrorCode(i)
          /\ MetadataGet(entries[i], "error_code")[1] = JString(UNKNOWN)
          /\ ~HasErrorCode(k)
    /\ \E j \in DOMAIN result : result[j].error_code = UNKNOWN
    /\ \E j \in DOMAIN result :
          result[j].error_code = <<"\"">> \o UNKNOWN \o <<"\"">>

----------------------------------------------------------------------------
(* extract_message_pattern applied to a message and again to its result *)

\* fn extract_message_pattern(&self, message: &str), first on the message of
\* the entry, then on the template it returned
ExtractMessagePattern ==
    /\ \/ pc = "idle"
       \/ Done("extract_message_pattern") /\ previous = <<>>
    /\ result' = IF pc = "idle"
                 THEN extract_message_pattern(entries[1].message)
                 ELSE extract_message_pattern(result)
    /\ previous' = IF pc = "idle" THEN <<>> ELSE <<result>>
    /\ caller' = "extract_message_pattern"
    /\ pc' = "done"
    /\ UNCHANGED <<min_occurrences, combineVars, windowVars>>

\* One entry with each message
InitNormalize ==
    /\ entries \in {<<NewLogEntry(0, "Info", m, <<"a">>, <<>>, <<>>)>> : m \in Messages}
    /\ WindowIdle
    /\ CombinerUnused
    /\ caller = "none"
    /\ pc = "idle"
    /\ result = <<>>
    /\ min_occurrences = 0
    /\ previous = <<>>

NextNormalize == ExtractMessagePattern

SpecNormalize == InitNormalize /\ [][NextNormalize]_vars

\* The template was normalized once more
NormalizedTwice == Done("extract_message_pattern") /\ previous # <<>>

\* C29: extract_message_pattern is idempotent: normalizing a normalized
\* template returns it unchanged; the placeholder # is not an all-digit
\* token, and the output has single spaces between tokens and no leading or
\* trailing whitespace.
C29_NormalizationIdempotent ==
    NormalizedTwice =>
        /\ result = previous[1]
        /\ result # <<>> => ~is_whitespace(result[1]) /\ ~is_whitespace(result[Len(result)])
        /\ \A i \in DOMAIN result :
              (i + 1 \in DOMAIN result /\ is_whitespace(result[i]))
                  => ~is_whitespace(result[i + 1])

\* A message with a number token and a second token, normalized twice
C29_Witness ==
    /\ NormalizedTwice
    /\ previous[1] # entries[1].message
    /\ "#" \in Range(result)
    /\ " " \in Range(result)

----------------------------------------------------------------------------
(* detect_anomalies on a time series of two buckets *)

\* The threshold, a fraction of positive denominator, is below 1
BelowOne(thr) == thr[1] < thr[2]

\* C30: when the time series has exactly two buckets with different counts
\* both have z-score exactly 1, so detect_anomalies flags both bucket starts
\* (threshold < 1) or neither (threshold >= 1), never exactly one of them.
C30_TwoBucketsBothOrNeither ==
    (Done("detect_anomalies") /\ Len(series) = 2 /\ series[1].count # series[2].count) =>
        /\ BelowOne(threshold) =>
              anomalies = <<series[1].timestamp, series[2].timestamp>>
        /\ ~BelowOne(threshold) => anomalies = <<>>
        /\ Len(anomalies) # 1
        /\ ZCompare(series, series[1].count, <<1, 1>>) = 0
        /\ ZCompare(series, series[2].count, <<1, 1>>) = 0

\* Two buckets of different counts, not flagged at threshold 1
C30_Witness ==
    /\ Done("detect_anomalies")
    /\ Len(series) = 2
    /\ series[1].count # series[2].count
    /\ threshold = <<1, 1>>
    /\ anomalies = <<>>

\* Two buckets of different counts, both flagged at threshold 1/2
C30_WitnessBoth ==
    /\ Done("detect_anomalies")
    /\ Len(series) = 2
    /\ series[1].count # series[2].count
    /\ threshold = <<1, 2>>
    /\ Len(anomalies) = 2

====
